---- MODULE Spec2Model ----
(***************************************************************************)
(* SecBox (src/src/lib.rs): a heap cell whose region is memlocked while    *)
(* the box is live and zeroed when it is dropped.  The model keeps a small *)
(* heap of allocation slots, the pinner's view of each slot (mlock /       *)
(* munlock), and each SecBox instance's position in the operation it is    *)
(* executing.  Operations of different instances interleave step by step;  *)
(* operations on one instance are exclusive (Rust ownership and borrows).  *)
(* T is modelled as a type with a destructor: every value owns a resource  *)
(* id, and dtorCount counts the destructor runs of each resource.          *)
(***************************************************************************)
EXTENDS Integers, Sequences, FiniteSets, TLC

\* ---- bounds ----
\* SecBox instances that are ever constructed
NumBoxes == 2
\* bytes range over 0..MaxByte
MaxByte == 1

\* size_of::<T>() of the sized T that new / clone / into_inner work on (u8 in test.rs)
SizeOfT == 1

\* allocation slots of the heap: one per instance, so allocation never fails
NumAddr == NumBoxes
\* largest dynamic size of an unsized value handed to From<Box<T>>
MaxLen == SizeOfT + 1
\* values (each owning one resource) that are ever created
MaxRes == NumBoxes + 1

Boxes == 1..NumBoxes
Addr == 1..NumAddr
Byte == 0..MaxByte
Res == 1..MaxRes

VARIABLES
    pc,         \* pc[c]: position of instance c in its current operation
    inner,      \* inner[c]: address held by the Unique<T> (0: none yet)
    meta,       \* meta[c]: size_of_val of the pointee (pointer metadata)
    arg,        \* arg[c]: value on the caller's stack being moved/cloned in
    src,        \* src[c]: instance borrowed as clone source (0: none)
    res,        \* res[c]: local `res` of into_inner
    extracted,  \* extracted[c]: into_inner has moved the value out
    alloc,      \* alloc[a]: slot a is currently allocated
    mem,        \* mem[a]: bytes of slot a (kept after free until reuse)
    holds,      \* holds[a]: resource id of the valid T stored in a (0: none)
    locked,     \* locked[a]: number of bytes of slot a the pinner has locked
    pinLog,     \* pinLog[c]: mlock requests issued by c
    unpinLog,   \* unpinLog[c]: munlock requests issued by c
    dtorCount,  \* dtorCount[r]: runs of T's destructor on resource r
    badDtor,    \* badDtor[c]: runs of T's destructor on c's region while it held no valid T
    freeCount,  \* freeCount[c]: times c released its allocation
    nextRes,    \* next fresh resource id
    crashed,    \* the process has aborted
    out,        \* out[c]: text produced by formatting c ("" : never formatted)
    val,        \* val[c]: the bytes the owner of c last stored in it (history)
    droppedRes, \* droppedRes[c]: resource c held when its Drop began (history)
    cloneOf,    \* cloneOf[c]: the instance c was cloned from (history, 0: none)
    seen,       \* seen[c]: what the holder of a live &T from deref reads (<<>>: no such borrow)
    pageLock    \* pageLock: pages a page-granular, non-nesting pinner holds locked

vars == <<pc, inner, meta, arg, src, res, extracted, alloc, mem, holds, locked,
          pinLog, unpinLog, dtorCount, badDtor, freeCount, nextRes, crashed, out,
          val, droppedRes, cloneOf, seen, pageLock>>

\* ---- values ----
NoVal == [bytes |-> <<>>, rid |-> 0]

RECURSIVE SeqsOfLen(_)
SeqsOfLen(n) ==
    IF n = 0 THEN {<<>>}
    ELSE {Append(s, b) : s \in SeqsOfLen(n - 1), b \in Byte}

Fill(n, b) == [i \in 1..n |-> b]

\* an uninitialized byte (mem::uninitialized, fresh allocation)
Undef == -1

AllZero(s) == \A i \in 1..Len(s) : s[i] = 0

\* ---- pure helpers of lib.rs ----

\* mem::size_of_val(&**self): the size carried with the pointer.
SizeOfVal(c) == meta[c]

\* variant: the fill stops one byte short of n
VolatileSetMemoryShort(bytes, n) ==
    [i \in 1..Len(bytes) |-> IF i < n THEN 0 ELSE bytes[i]]

\* intrinsics::volatile_set_memory(p as *mut u8, 0, n) / write_volatile(p, zeroed())
VolatileSetMemory(bytes, n) ==
    [i \in 1..Len(bytes) |-> IF i <= n THEN 0 ELSE bytes[i]]

\* variant: the formatter forwards to the value's own formatting
fmtLeak(bytes) == ToString(bytes)

\* write!(f, "*******")
fmtDisplay(bytes) == "*******"

fmtDebug(bytes) == "*******"

\* libc::mlock(addr, len): may fail; the caller sees only the return value.
Mlock(l, a, n, ok) == IF ok THEN [l EXCEPT ![a] = n] ELSE l

\* libc::munlock(addr, len) on a mapped range.
Munlock(l, a, n) == [l EXCEPT ![a] = 0]

\* slots that lie on one page of the pinner
SlotsPerPage == 2

PageOf(a) == (a - 1) \div SlotsPerPage

\* the same calls as a page-granular pinner without lock counts sees them:
\* mlock locks the page of the range, one munlock unlocks it.
MlockPage(pl, a, ok) == IF ok THEN pl \cup {PageOf(a)} ELSE pl

MunlockPage(pl, a) == pl \ {PageOf(a)}

\* c is borrowed (&SecBox<T>) by a clone / clone_from in progress
Borrowed(c) == \E d \in Boxes : src[d] = c

Init ==
    /\ pc = [c \in Boxes |-> "none"]
    /\ inner = [c \in Boxes |-> 0]
    /\ meta = [c \in Boxes |-> 0]
    /\ arg = [c \in Boxes |-> NoVal]
    /\ src = [c \in Boxes |-> 0]
    /\ res = [c \in Boxes |-> NoVal]
    /\ extracted = [c \in Boxes |-> FALSE]
    /\ alloc = [a \in Addr |-> FALSE]
    /\ mem = [a \in Addr |-> <<>>]
    /\ holds = [a \in Addr |-> 0]
    /\ locked = [a \in Addr |-> 0]
    /\ pinLog = [c \in Boxes |-> <<>>]
    /\ unpinLog = [c \in Boxes |-> <<>>]
    /\ dtorCount = [r \in Res |-> 0]
    /\ badDtor = [c \in Boxes |-> 0]
    /\ freeCount = [c \in Boxes |-> 0]
    /\ nextRes = 1
    /\ crashed = FALSE
    /\ out = [c \in Boxes |-> ""]
    /\ val = [c \in Boxes |-> <<>>]
    /\ droppedRes = [c \in Boxes |-> 0]
    /\ cloneOf = [c \in Boxes |-> 0]
    /\ seen = [c \in Boxes |-> <<>>]
    /\ pageLock = {}

\* ---- SecBox::new ----

\* variant: clone takes the source's pointer instead of a fresh allocation
NewAllocAlias(c, v, s) ==
    /\ ~crashed
    /\ pc[c] = "none"
    /\ \E a \in Addr :
        /\ IF s = 0 THEN ~alloc[a] ELSE a = inner[s]
        /\ alloc' = [alloc EXCEPT ![a] = TRUE]
        /\ mem' = [mem EXCEPT ![a] = IF s = 0 THEN Fill(SizeOfT, Undef) ELSE @]
        /\ holds' = [holds EXCEPT ![a] = IF s = 0 THEN 0 ELSE @]
        /\ inner' = [inner EXCEPT ![c] = a]
    /\ meta' = [meta EXCEPT ![c] = SizeOfT]
    /\ arg' = [arg EXCEPT ![c] = v]
    /\ src' = [src EXCEPT ![c] = s]
    /\ pc' = [pc EXCEPT ![c] = "new_lock"]
    /\ nextRes' = IF v.rid = 0 THEN nextRes ELSE nextRes + 1
    /\ UNCHANGED <<res, extracted, locked, pinLog, unpinLog, dtorCount, badDtor,
                   freeCount, crashed, out, val, droppedRes, seen, pageLock>>
    /\ cloneOf' = [cloneOf EXCEPT ![c] = s]

\* `box mem::uninitialized::<T>()`: a fresh allocation with arbitrary bytes.
\* s = 0: new(v) called by the user; s # 0: new(mem::uninitialized()) called by s.clone().
NewAlloc(c, v, s) ==
    /\ ~crashed
    /\ pc[c] = "none"
    /\ \E a \in Addr :
        /\ ~alloc[a]
        /\ alloc' = [alloc EXCEPT ![a] = TRUE]
        /\ mem' = [mem EXCEPT ![a] = Fill(SizeOfT, Undef)]
        /\ holds' = [holds EXCEPT ![a] = 0]
        /\ inner' = [inner EXCEPT ![c] = a]
    /\ meta' = [meta EXCEPT ![c] = SizeOfT]
    /\ arg' = [arg EXCEPT ![c] = v]
    /\ src' = [src EXCEPT ![c] = s]
    /\ pc' = [pc EXCEPT ![c] = "new_lock"]
    /\ nextRes' = IF v.rid = 0 THEN nextRes ELSE nextRes + 1
    /\ UNCHANGED <<res, extracted, locked, pinLog, unpinLog, dtorCount, badDtor,
                   freeCount, crashed, out, val, droppedRes, seen, pageLock>>
    /\ cloneOf' = [cloneOf EXCEPT ![c] = s]

New(c) ==
    /\ nextRes <= MaxRes
    /\ \E b \in SeqsOfLen(SizeOfT) : NewAlloc(c, [bytes |-> b, rid |-> nextRes], 0)

\* res.memlock()
Memlock(c) ==
    \E ok \in BOOLEAN :
        /\ locked' = Mlock(locked, inner[c], SizeOfVal(c), ok)
        /\ pageLock' = MlockPage(pageLock, inner[c], ok)
        /\ pinLog' = [pinLog EXCEPT ![c] = Append(@, [addr |-> inner[c], len |-> SizeOfVal(c), ok |-> ok])]

NewLock(c) ==
    /\ ~crashed
    /\ pc[c] = "new_lock"
    /\ Memlock(c)
    /\ pc' = [pc EXCEPT ![c] = "new_write"]
    /\ UNCHANGED <<inner, meta, arg, src, res, extracted, alloc, mem, holds, unpinLog,
                   dtorCount, badDtor, freeCount, nextRes, crashed, out, val, droppedRes, cloneOf, seen>>

\* ptr::write(*res.inner, inner); res
NewWrite(c) ==
    /\ ~crashed
    /\ pc[c] = "new_write"
    /\ mem' = [mem EXCEPT ![inner[c]] = arg[c].bytes]
    /\ holds' = [holds EXCEPT ![inner[c]] = arg[c].rid]
    /\ arg' = [arg EXCEPT ![c] = NoVal]
    /\ pc' = [pc EXCEPT ![c] = IF src[c] = 0 THEN "live" ELSE "cf_clone"]
    /\ UNCHANGED <<inner, meta, src, res, extracted, alloc, locked, pinLog, unpinLog,
                   dtorCount, badDtor, freeCount, nextRes, crashed, out, droppedRes, cloneOf, seen, pageLock>>
    /\ val' = [val EXCEPT ![c] = IF src[c] = 0 THEN arg[c].bytes ELSE @]

\* ---- From<Box<T>> ----

\* SecBox::from(b): b is a Box the caller built at a free slot a, holding v
\* (sized or unsized, n bytes).  The SecBox adopts the pointer and memlocks it.
FromBox(c) ==
    /\ ~crashed
    /\ pc[c] = "none"
    /\ nextRes <= MaxRes
    /\ \E a \in Addr, n \in 1..MaxLen :
        \E b \in SeqsOfLen(n) :
            /\ ~alloc[a]
            /\ alloc' = [alloc EXCEPT ![a] = TRUE]
            /\ mem' = [mem EXCEPT ![a] = b]
            /\ holds' = [holds EXCEPT ![a] = nextRes]
            /\ inner' = [inner EXCEPT ![c] = a]
            /\ meta' = [meta EXCEPT ![c] = n]
            /\ val' = [val EXCEPT ![c] = b]
            /\ \E ok \in BOOLEAN :
                /\ locked' = Mlock(locked, a, n, ok)
                /\ pageLock' = MlockPage(pageLock, a, ok)
                /\ pinLog' = [pinLog EXCEPT ![c] = Append(@, [addr |-> a, len |-> n, ok |-> ok])]
    /\ nextRes' = nextRes + 1
    /\ pc' = [pc EXCEPT ![c] = "live"]
    /\ UNCHANGED <<arg, src, res, extracted, unpinLog, dtorCount, badDtor, freeCount,
                   crashed, out, droppedRes, cloneOf, seen>>

\* ---- Clone ----

\* T: Clone implies T: Sized
IsSized(c) == meta[c] = SizeOfT

\* s.clone(): `let mut bx = SecBox::new(mem::uninitialized::<T>())`, then clone_from.
Clone(c, s) ==
    /\ c # s
    /\ pc[s] = "live"
    /\ IsSized(s)
    /\ NewAlloc(c, [bytes |-> Fill(SizeOfT, Undef), rid |-> 0], s)

\* d.clone_from(&s) on two live boxes
CloneFrom(d, s) ==
    /\ ~crashed
    /\ d # s
    /\ pc[d] = "live" /\ pc[s] = "live"
    /\ IsSized(d) /\ IsSized(s)
    /\ ~Borrowed(d) /\ src[s] = 0
    /\ src' = [src EXCEPT ![d] = s]
    /\ pc' = [pc EXCEPT ![d] = "cf_clone"]
    /\ UNCHANGED <<inner, meta, arg, res, extracted, alloc, mem, holds, locked, pinLog,
                   unpinLog, dtorCount, badDtor, freeCount, nextRes, crashed, out, val, droppedRes, cloneOf, pageLock>>
    /\ seen' = [seen EXCEPT ![d] = <<>>]

\* T::clone_from(&mut **self, src), the default `*self = source.clone()`:
\* first source.clone() builds the duplicate as a temporary of the caller.
CfClone(c) ==
    /\ ~crashed
    /\ pc[c] = "cf_clone"
    /\ nextRes <= MaxRes
    /\ arg' = [arg EXCEPT ![c] = [bytes |-> mem[inner[src[c]]], rid |-> nextRes]]
    /\ nextRes' = nextRes + 1
    /\ pc' = [pc EXCEPT ![c] = "cf_assign"]
    /\ UNCHANGED <<inner, meta, src, res, extracted, alloc, mem, holds, locked, pinLog,
                   unpinLog, dtorCount, badDtor, freeCount, crashed, out, val, droppedRes, cloneOf, seen, pageLock>>

\* variant: the old value is overwritten without its destructor being run
DropInPlaceSkip(c) == UNCHANGED <<dtorCount, badDtor, crashed>>

\* ptr::drop_in_place on the region of c.  A valid T has its destructor run;
\* on bytes that are no valid T the call is undefined: the process aborts or
\* the destructor returns having run on garbage.
DropInPlace(c) ==
    LET a == inner[c] IN
    IF holds[a] # 0
    THEN /\ dtorCount' = [dtorCount EXCEPT ![holds[a]] = @ + 1]
         /\ UNCHANGED <<badDtor, crashed>>
    ELSE /\ badDtor' = [badDtor EXCEPT ![c] = @ + 1]
         /\ crashed' \in BOOLEAN
         /\ UNCHANGED dtorCount

\* ... then the assignment drops the old *self and moves the temporary in.
CfAssign(c) ==
    /\ ~crashed
    /\ pc[c] = "cf_assign"
    /\ DropInPlace(c)
    /\ mem' = [mem EXCEPT ![inner[c]] = arg[c].bytes]
    /\ holds' = [holds EXCEPT ![inner[c]] = arg[c].rid]
    /\ arg' = [arg EXCEPT ![c] = NoVal]
    /\ src' = [src EXCEPT ![c] = 0]
    /\ pc' = [pc EXCEPT ![c] = "live"]
    /\ UNCHANGED <<inner, meta, res, extracted, alloc, locked, pinLog, unpinLog,
                   freeCount, nextRes, out, droppedRes, cloneOf, seen, pageLock>>
    /\ val' = [val EXCEPT ![c] = val[src[c]]]

\* ---- Deref ----

\* variant: the reference is formed from a pointer one slot off
DerefGetOff(c) == mem[(inner[c] % NumAddr) + 1]

\* self.inner.get(): the pointee of the Unique<T>
DerefGet(c) == mem[inner[c]]

\* &*bx: a shared borrow of the value, read by the caller
Deref(c) ==
    /\ ~crashed
    /\ pc[c] = "live"
    /\ seen[c] # DerefGet(c)
    /\ seen' = [seen EXCEPT ![c] = DerefGet(c)]
    /\ UNCHANGED <<pc, inner, meta, arg, src, res, extracted, alloc, mem, holds, locked,
                   pinLog, unpinLog, dtorCount, badDtor, freeCount, nextRes, crashed, out,
                   val, droppedRes, cloneOf, pageLock>>

\* ---- DerefMut ----

\* variant: the write goes through a copy of the old value made outside the region
DerefMutWriteCopy(c) ==
    /\ ~crashed
    /\ pc[c] = "live"
    /\ ~Borrowed(c)
    /\ \E b \in SeqsOfLen(meta[c]) :
        /\ b # mem[inner[c]]
        /\ mem' = [mem EXCEPT ![inner[c]] = b]
        /\ val' = [val EXCEPT ![c] = b]
    /\ UNCHANGED <<pc, inner, meta, src, res, extracted, alloc, holds, locked,
                   pinLog, unpinLog, dtorCount, badDtor, freeCount, nextRes, crashed, out, droppedRes, cloneOf, pageLock>>
    /\ seen' = [seen EXCEPT ![c] = <<>>]
    /\ arg' = [arg EXCEPT ![c] = [bytes |-> mem[inner[c]], rid |-> holds[inner[c]]]]

\* *bx = b / *bx += 1: a write through deref_mut, in place.
DerefMutWrite(c) ==
    /\ ~crashed
    /\ pc[c] = "live"
    /\ ~Borrowed(c)
    /\ \E b \in SeqsOfLen(meta[c]) :
        /\ b # mem[inner[c]]
        /\ mem' = [mem EXCEPT ![inner[c]] = b]
        /\ val' = [val EXCEPT ![c] = b]
    /\ UNCHANGED <<pc, inner, meta, arg, src, res, extracted, alloc, holds, locked,
                   pinLog, unpinLog, dtorCount, badDtor, freeCount, nextRes, crashed, out, droppedRes, cloneOf, pageLock>>
    /\ seen' = [seen EXCEPT ![c] = <<>>]

\* ---- Display / Debug ----
Fmt(c) ==
    /\ ~crashed
    /\ pc[c] = "live"
    /\ \E o \in {fmtDisplay(mem[inner[c]]), fmtDebug(mem[inner[c]])} :
        /\ out[c] # o
        /\ out' = [out EXCEPT ![c] = o]
    /\ UNCHANGED <<pc, inner, meta, arg, src, res, extracted, alloc, mem, holds, locked,
                   pinLog, unpinLog, dtorCount, badDtor, freeCount, nextRes, crashed, val, droppedRes, cloneOf, seen, pageLock>>

\* self.memunlock()
Memunlock(c) ==
    /\ locked' = Munlock(locked, inner[c], SizeOfVal(c))
    /\ pageLock' = MunlockPage(pageLock, inner[c])
    /\ unpinLog' = [unpinLog EXCEPT ![c] = Append(@, [addr |-> inner[c], len |-> SizeOfVal(c)])]

\* ---- into_inner ----

\* variant: the region is zeroed before it is read
IiReadZeroed(c) ==
    /\ ~crashed
    /\ pc[c] = "live"
    /\ ~Borrowed(c)
    /\ meta[c] = SizeOfT
    /\ res' = [res EXCEPT ![c] = [bytes |-> Fill(SizeOfT, 0), rid |-> holds[inner[c]]]]
    /\ holds' = [holds EXCEPT ![inner[c]] = 0]
    /\ extracted' = [extracted EXCEPT ![c] = TRUE]
    /\ pc' = [pc EXCEPT ![c] = "ii_zero"]
    /\ UNCHANGED <<inner, meta, arg, src, alloc, mem, locked, pinLog, unpinLog,
                   dtorCount, badDtor, freeCount, nextRes, crashed, out, val, droppedRes, cloneOf, pageLock>>
    /\ seen' = [seen EXCEPT ![c] = <<>>]

\* let res = ptr::read(*self.inner)
IiRead(c) ==
    /\ ~crashed
    /\ pc[c] = "live"
    /\ ~Borrowed(c)
    /\ IsSized(c)
    /\ res' = [res EXCEPT ![c] = [bytes |-> mem[inner[c]], rid |-> holds[inner[c]]]]
    /\ holds' = [holds EXCEPT ![inner[c]] = 0]
    /\ extracted' = [extracted EXCEPT ![c] = TRUE]
    /\ pc' = [pc EXCEPT ![c] = "ii_zero"]
    /\ UNCHANGED <<inner, meta, arg, src, alloc, mem, locked, pinLog, unpinLog,
                   dtorCount, badDtor, freeCount, nextRes, crashed, out, val, droppedRes, cloneOf, pageLock>>
    /\ seen' = [seen EXCEPT ![c] = <<>>]

\* variant: the zero write is an ordinary store that is optimised away
IiZeroElided(c) ==
    /\ ~crashed
    /\ pc[c] = "ii_zero"
    /\ mem' = mem
    /\ pc' = [pc EXCEPT ![c] = "ii_unlock"]
    /\ UNCHANGED <<inner, meta, arg, src, res, extracted, alloc, holds, locked, pinLog,
                   unpinLog, dtorCount, badDtor, freeCount, nextRes, crashed, out, val, droppedRes, cloneOf, seen, pageLock>>

\* ptr::write_volatile(*self.inner, mem::zeroed())
IiZero(c) ==
    /\ ~crashed
    /\ pc[c] = "ii_zero"
    /\ mem' = [mem EXCEPT ![inner[c]] = VolatileSetMemory(@, SizeOfT)]
    /\ pc' = [pc EXCEPT ![c] = "ii_unlock"]
    /\ UNCHANGED <<inner, meta, arg, src, res, extracted, alloc, holds, locked, pinLog,
                   unpinLog, dtorCount, badDtor, freeCount, nextRes, crashed, out, val, droppedRes, cloneOf, seen, pageLock>>

\* self.memunlock(); res -- and `self` goes out of scope at the end of the
\* function, so Drop for SecBox runs on it next.
IiUnlock(c) ==
    /\ ~crashed
    /\ pc[c] = "ii_unlock"
    /\ Memunlock(c)
    /\ pc' = [pc EXCEPT ![c] = "ii_scope_end"]
    /\ UNCHANGED <<inner, meta, arg, src, res, extracted, alloc, mem, holds, pinLog,
                   dtorCount, badDtor, freeCount, nextRes, crashed, out, val, droppedRes, cloneOf, seen>>

\* ---- Drop ----

\* variant: the region is zeroed before T's destructor runs
DropDtorZeroFirst(c) ==
    /\ ~crashed
    /\ \/ pc[c] = "live" /\ ~Borrowed(c)
       \/ pc[c] = "ii_scope_end"
    /\ DropInPlace(c)
    /\ holds' = [holds EXCEPT ![inner[c]] = 0]
    /\ pc' = [pc EXCEPT ![c] = "drop_zero"]
    /\ UNCHANGED <<inner, meta, arg, src, res, extracted, alloc, locked, pinLog,
                   unpinLog, freeCount, nextRes, out, val, cloneOf, pageLock>>
    /\ droppedRes' = [droppedRes EXCEPT ![c] = holds[inner[c]]]
    /\ seen' = [seen EXCEPT ![c] = <<>>]
    /\ mem' = [mem EXCEPT ![inner[c]] = VolatileSetMemory(@, SizeOfVal(c))]

\* ptr::drop_in_place(*self.inner): entered when a live box goes out of scope,
\* and when into_inner's `self` does.
DropDtor(c) ==
    /\ ~crashed
    /\ \/ pc[c] = "live" /\ ~Borrowed(c)
       \/ pc[c] = "ii_scope_end"
    /\ DropInPlace(c)
    /\ holds' = [holds EXCEPT ![inner[c]] = 0]
    /\ pc' = [pc EXCEPT ![c] = "drop_zero"]
    /\ UNCHANGED <<inner, meta, arg, src, res, extracted, alloc, mem, locked, pinLog,
                   unpinLog, freeCount, nextRes, out, val, cloneOf, pageLock>>
    /\ droppedRes' = [droppedRes EXCEPT ![c] = holds[inner[c]]]
    /\ seen' = [seen EXCEPT ![c] = <<>>]

\* intrinsics::volatile_set_memory(*self.inner as *mut u8, 0, size_of_val(&**self));
\* let _buf = Box::from_raw(slice::from_raw_parts_mut(.. as *mut u8, size_of_val(..)))
DropZero(c) ==
    /\ ~crashed
    /\ pc[c] = "drop_zero"
    /\ mem' = [mem EXCEPT ![inner[c]] = VolatileSetMemory(@, SizeOfVal(c))]
    /\ pc' = [pc EXCEPT ![c] = "drop_unlock"]
    /\ UNCHANGED <<inner, meta, arg, src, res, extracted, alloc, holds, locked, pinLog,
                   unpinLog, dtorCount, badDtor, freeCount, nextRes, crashed, out, val, droppedRes, cloneOf, seen, pageLock>>

\* self.memunlock()
DropUnlock(c) ==
    /\ ~crashed
    /\ pc[c] = "drop_unlock"
    /\ Memunlock(c)
    /\ pc' = [pc EXCEPT ![c] = "drop_free"]
    /\ UNCHANGED <<inner, meta, arg, src, res, extracted, alloc, mem, holds, pinLog,
                   dtorCount, badDtor, freeCount, nextRes, crashed, out, val, droppedRes, cloneOf, seen>>

\* variant: the allocation is released as a Box<T>, whose drop runs T's destructor
DropFreeAsBoxT(c) ==
    /\ ~crashed
    /\ pc[c] = "drop_free"
    /\ alloc' = [alloc EXCEPT ![inner[c]] = FALSE]
    /\ freeCount' = [freeCount EXCEPT ![c] = @ + 1]
    /\ pc' = [pc EXCEPT ![c] = "dead"]
    /\ dtorCount' = [r \in Res |-> IF r = droppedRes[c] THEN dtorCount[r] + 1 ELSE dtorCount[r]]
    /\ UNCHANGED <<inner, meta, arg, src, res, extracted, mem, holds, locked, pinLog,
                   unpinLog, badDtor, nextRes, crashed, out, val, droppedRes, cloneOf, seen, pageLock>>

\* `_buf` (Box<[u8]>) goes out of scope: the allocation is released.
DropFree(c) ==
    /\ ~crashed
    /\ pc[c] = "drop_free"
    /\ alloc' = [alloc EXCEPT ![inner[c]] = FALSE]
    /\ freeCount' = [freeCount EXCEPT ![c] = @ + 1]
    /\ pc' = [pc EXCEPT ![c] = "dead"]
    /\ UNCHANGED <<inner, meta, arg, src, res, extracted, mem, holds, locked, pinLog,
                   unpinLog, dtorCount, badDtor, nextRes, crashed, out, val, droppedRes, cloneOf, seen, pageLock>>

Next ==
    \/ \E c \in Boxes : New(c)
    \/ \E c \in Boxes : NewLock(c)
    \/ \E c \in Boxes : NewWrite(c)
    \/ \E c \in Boxes : FromBox(c)
    \/ \E c, s \in Boxes : Clone(c, s)
    \/ \E d, s \in Boxes : CloneFrom(d, s)
    \/ \E c \in Boxes : CfClone(c)
    \/ \E c \in Boxes : CfAssign(c)
    \/ \E c \in Boxes : Deref(c)
    \/ \E c \in Boxes : DerefMutWrite(c)
    \/ \E c \in Boxes : Fmt(c)
    \/ \E c \in Boxes : IiRead(c)
    \/ \E c \in Boxes : IiZero(c)
    \/ \E c \in Boxes : IiUnlock(c)
    \/ \E c \in Boxes : DropDtor(c)
    \/ \E c \in Boxes : DropZero(c)
    \/ \E c \in Boxes : DropUnlock(c)
    \/ \E c \in Boxes : DropFree(c)

Spec == Init /\ [][Next]_vars

\* ======================= properties =======================

\* the pinner holds the whole region of c locked
Pinned(c) == inner[c] # 0 /\ locked[inner[c]] > 0 /\ locked[inner[c]] = Len(mem[inner[c]])

\* Drop for SecBox has run its drop_in_place on c
DropPcs == {"drop_zero", "drop_unlock", "drop_free", "dead"}

\* c was live before the clone_from in progress (not the fresh box of a clone)
Constructed(c) == val[c] # <<>>

\* C1: for every instance at most one of extraction (into_inner) and in-place
\* destruction (the Drop steps) occurs: once into_inner has moved the value
\* out, Drop's destructor/zero/free steps are not run on that instance, and
\* no allocation is freed twice.
C1_ExactlyOneTerminal ==
    \A c \in Boxes :
        /\ extracted[c] => pc[c] \notin DropPcs
        /\ freeCount[c] <= 1

\* C2: no live SecBox exists whose pin request (mlock) reported failure.
C2_NoLiveBoxWithFailedPin ==
    \A c \in Boxes :
        pc[c] = "live" => \A i \in 1..Len(pinLog[c]) : pinLog[c][i].ok

\* C3: every live SecBox has its backing region pinned.
C3_LiveIsPinned ==
    \A c \in Boxes : pc[c] = "live" => Pinned(c)

\* C4: once Drop has zeroed the region of c, every byte of the region is zero
\* over the full size of the stored value, and it stays zero after the
\* allocation is released (until the allocator hands the slot out again).
C4_DroppedRegionZero ==
    \A c \in Boxes :
        /\ pc[c] \in {"drop_unlock", "drop_free"} =>
              /\ Len(mem[inner[c]]) = meta[c]
              /\ AllZero(mem[inner[c]])
        /\ (pc[c] = "dead" /\ ~alloc[inner[c]]) => AllZero(mem[inner[c]])

C4_Witness ==
    \E c \in Boxes :
        /\ pc[c] = "dead" /\ ~extracted[c] /\ ~alloc[inner[c]]
        /\ meta[c] = MaxLen /\ meta[c] > SizeOfT
        /\ Len(mem[inner[c]]) = MaxLen
        /\ val[c][MaxLen] # 0

\* C5: when a box is dropped without extraction, the destructor of the value
\* it held has run exactly once from the drop_in_place step on, including
\* after the allocation is released; no value's destructor runs twice.
C5_DtorExactlyOnce ==
    /\ \A c \in Boxes :
        (pc[c] \in DropPcs /\ ~extracted[c]) =>
            /\ droppedRes[c] # 0
            /\ dtorCount[droppedRes[c]] = 1
    /\ \A r \in Res : dtorCount[r] <= 1

C5_Witness ==
    \E c \in Boxes :
        /\ pc[c] = "dead" /\ ~extracted[c] /\ freeCount[c] = 1
        /\ droppedRes[c] # 0 /\ dtorCount[droppedRes[c]] = 1

\* C6: every instance issues at most one pin and at most one unpin request,
\* exactly one of each once it has ended, and every request covers exactly
\* its own region (its address, the size of its value).
C6_OnePinOneUnpin ==
    \A c \in Boxes :
        /\ Len(pinLog[c]) <= 1
        /\ Len(unpinLog[c]) <= 1
        /\ pc[c] = "dead" => (Len(pinLog[c]) = 1 /\ Len(unpinLog[c]) = 1)
        /\ \A i \in 1..Len(pinLog[c]) :
              pinLog[c][i].addr = inner[c] /\ pinLog[c][i].len = meta[c]
        /\ \A i \in 1..Len(unpinLog[c]) :
              unpinLog[c][i].addr = inner[c] /\ unpinLog[c][i].len = meta[c]

\* C7: the value into_inner hands back (its local res, from the read on) is
\* exactly the value last stored in the box: the one given to new / from /
\* clone_from, as changed by later writes through deref_mut.
C7_IntoInnerReturnsValue ==
    \A c \in Boxes : extracted[c] => res[c].bytes = val[c]

C7_Witness ==
    \E c \in Boxes :
        /\ extracted[c] /\ pc[c] = "dead"
        /\ res[c].bytes = val[c] /\ ~AllZero(res[c].bytes)
        /\ AllZero(mem[inner[c]])

\* C8: a clone and its source are independent: they never share a region,
\* each one that is live reads back the value last stored in it (the clone
\* starts with the source's value) whatever is written to or done with the
\* other, and each is zeroed when it is dropped.
C8_CloneIndependent ==
    \A c \in Boxes :
        cloneOf[c] # 0 =>
            LET s == cloneOf[c] IN
            /\ inner[c] # inner[s]
            /\ pc[c] = "live" => mem[inner[c]] = val[c]
            /\ pc[s] = "live" => mem[inner[s]] = val[s]
            /\ (pc[c] = "dead" /\ ~alloc[inner[c]]) => AllZero(mem[inner[c]])
            /\ (pc[s] = "dead" /\ ~alloc[inner[s]]) => AllZero(mem[inner[s]])

C8_Witness ==
    \E c \in Boxes :
        /\ cloneOf[c] # 0
        /\ pc[c] = "live" /\ pc[cloneOf[c]] = "dead"
        /\ val[c] # val[cloneOf[c]]
        /\ ~AllZero(val[cloneOf[c]])

\* C9: the step that completes dst.clone_from(&src) leaves dst holding a
\* duplicate of src's value, with dst's prior value destructed exactly once;
\* no step of the call changes src, dst's address, dst's allocation, the
\* pinner's view of dst's region, or issues a pin/unpin request for dst.
C9_CloneFromReplaces ==
    [][\A d \in Boxes :
        (pc[d] \in {"cf_clone", "cf_assign"} /\ Constructed(d)) =>
            LET s == src[d]
                a == inner[d]
            IN  /\ inner'[d] = a /\ meta'[d] = meta[d] /\ alloc'[a]
                /\ locked'[a] = locked[a]
                /\ pinLog'[d] = pinLog[d] /\ unpinLog'[d] = unpinLog[d]
                /\ pc'[s] = "live" /\ inner'[s] = inner[s]
                /\ mem'[inner[s]] = mem[inner[s]] /\ mem[inner[s]] = val[s]
                /\ holds'[inner[s]] = holds[inner[s]]
                /\ pc'[d] = "live" =>
                      /\ holds[a] # 0
                      /\ dtorCount[holds[a]] = 0
                      /\ dtorCount'[holds[a]] = 1
                      /\ mem'[a] = mem'[inner[s]]
                      /\ holds'[a] \notin {0, holds[a], holds[inner[s]]}
      ]_vars

C9_Witness ==
    \E d, s \in Boxes :
        /\ d # s /\ pc[d] = "live" /\ pc[s] = "live"
        /\ cloneOf[d] = 0 /\ cloneOf[s] = 0
        /\ mem[inner[d]] = mem[inner[s]] /\ ~AllZero(mem[inner[d]])
        /\ \E r \in Res : dtorCount[r] = 1
        /\ Pinned(d)

\* C10: formatting yields the same text for every box that has been
\* formatted, whatever values the boxes hold.
C10_FormatIsFixed ==
    \A c, d \in Boxes :
        (out[c] # "" /\ out[d] # "") => out[c] = out[d]

C10_Witness ==
    \E c, d \in Boxes :
        /\ c # d /\ pc[c] = "live" /\ pc[d] = "live"
        /\ out[c] # "" /\ out[d] # ""
        /\ val[c] # val[d]

\* C11: what is read through deref of a live box is the value last stored in
\* it: the one given at construction, or the last write through deref_mut.
C11_DerefReadsLastStored ==
    \A c \in Boxes :
        seen[c] # <<>> => (pc[c] = "live" /\ seen[c] = val[c])

C11_Witness ==
    \E c \in Boxes :
        /\ seen[c] # <<>> /\ seen[c] = val[c]
        /\ Len(seen[c]) = MaxLen /\ ~AllZero(seen[c])

\* C12: in new the value is not in the region before the pin request, and at
\* the step that writes the value the region is pinned.
C12_PinnedBeforeWrite ==
    \A c \in Boxes :
        /\ pc[c] = "new_lock" => (holds[inner[c]] = 0 /\ Len(pinLog[c]) = 0)
        /\ pc[c] = "new_write" => (Len(pinLog[c]) = 1 /\ Pinned(c))

\* C13: Drop runs destruct, zero, unpin, free in this order: after the
\* destructor step of a box dropped by its owner the bytes are still the
\* value's and the destructor has run; when the unpin step is due the whole
\* region is zero and no unpin has been issued by Drop; when the free step is
\* due the region is unpinned and still allocated; after the free nothing
\* more is requested for the region.
C13_DropOrder ==
    \A c \in Boxes :
        LET a == inner[c] IN
        /\ (pc[c] = "drop_zero" /\ ~extracted[c]) =>
              /\ mem[a] = val[c]
              /\ dtorCount[droppedRes[c]] = 1
              /\ alloc[a] /\ Len(unpinLog[c]) = 0
        /\ pc[c] = "drop_unlock" =>
              /\ AllZero(mem[a]) /\ Len(mem[a]) = meta[c]
              /\ alloc[a]
              /\ ~extracted[c] =>
                    /\ Len(unpinLog[c]) = 0
                    /\ locked[a] = IF pinLog[c][1].ok THEN meta[c] ELSE 0
        /\ pc[c] = "drop_free" =>
              /\ alloc[a] /\ locked[a] = 0 /\ AllZero(mem[a])
              /\ Len(unpinLog[c]) >= 1
        /\ pc[c] = "dead" =>
              /\ freeCount[c] = 1
              /\ ~extracted[c] => Len(unpinLog[c]) = 1

C13_Witness ==
    \E c \in Boxes :
        /\ pc[c] = "drop_unlock" /\ ~extracted[c]
        /\ ~AllZero(val[c]) /\ Pinned(c)

\* C14: into_inner moves the value out, then zeroes the region, then unpins
\* it, and the allocation is released last: the region is all zero when the
\* unpin is due, unpinned and still allocated until the release, and once
\* into_inner has returned the region is released, zero and unpinned (until
\* the slot is handed out again) while the returned value is the one held.
C14_IntoInnerOrder ==
    \A c \in Boxes :
        extracted[c] =>
            LET a == inner[c] IN
            /\ pc[c] = "ii_zero" =>
                  (res[c].bytes = val[c] /\ alloc[a] /\ Len(unpinLog[c]) = 0)
            /\ pc[c] = "ii_unlock" =>
                  (AllZero(mem[a]) /\ alloc[a] /\ Len(unpinLog[c]) = 0)
            /\ pc[c] \in {"ii_scope_end", "drop_zero", "drop_unlock", "drop_free"} =>
                  (AllZero(mem[a]) /\ locked[a] = 0 /\ alloc[a] /\ Len(unpinLog[c]) >= 1)
            /\ pc[c] = "dead" =>
                  /\ freeCount[c] = 1 /\ res[c].bytes = val[c]
                  /\ ~alloc[a] => (AllZero(mem[a]) /\ locked[a] = 0)

C14_Witness ==
    \E c \in Boxes :
        /\ extracted[c] /\ pc[c] = "dead" /\ ~alloc[inner[c]]
        /\ ~AllZero(val[c]) /\ pinLog[c][1].ok
        /\ Len(mem[inner[c]]) = SizeOfT

\* C15: while clone runs, no copy of the source's value exists outside the
\* source's region and the new region, and the new region holds a value only
\* while it is pinned.
C15_NoUnprotectedCopy ==
    \A c \in Boxes :
        (cloneOf[c] # 0 /\ pc[c] \in {"new_lock", "new_write", "cf_clone", "cf_assign"}) =>
            /\ arg[c].rid = 0
            /\ holds[inner[c]] # 0 => Pinned(c)

\* C16: from the end of its construction (that of the fresh box of clone
\* included) until it is moved out or destroyed, the region of a box holds a
\* valid T, and T's destructor never runs on bytes that are no valid T.
C16_RegionAlwaysValid ==
    \A c \in Boxes :
        /\ pc[c] \in {"live", "cf_clone", "cf_assign"} => holds[inner[c]] # 0
        /\ badDtor[c] = 0

\* C17: a deref or deref_mut step of a live box changes nothing but what the
\* borrower sees and, for deref_mut, the bytes of that box's own region: no
\* address, allocation, pin state, request, position, temporary or other
\* region changes.
C17_DerefFrame ==
    [][\A c \in Boxes :
        (pc' = pc /\ (seen'[c] # seen[c] \/ val'[c] # val[c])) =>
            /\ pc[c] = "live"
            /\ inner' = inner /\ meta' = meta /\ alloc' = alloc
            /\ locked' = locked /\ pageLock' = pageLock
            /\ pinLog' = pinLog /\ unpinLog' = unpinLog
            /\ holds' = holds /\ arg' = arg /\ res' = res /\ src' = src
            /\ extracted' = extracted /\ dtorCount' = dtorCount
            /\ freeCount' = freeCount /\ nextRes' = nextRes /\ out' = out
            /\ \A a \in Addr \ {inner[c]} : mem'[a] = mem[a]
            /\ val'[c] = val[c] => mem' = mem
            /\ \A d \in Boxes \ {c} : val'[d] = val[d] /\ seen'[d] = seen[d]
      ]_vars

C17_Witness ==
    \E c, d \in Boxes :
        /\ cloneOf[c] = d /\ pc[c] = "live" /\ pc[d] = "live"
        /\ \A r \in Res : dtorCount[r] = 0
        /\ val[c] # val[d]
        /\ seen[c] = val[c] /\ seen[d] = val[d]
        /\ Pinned(c) /\ Pinned(d)

\* C18: a box built by From from an unsized value has issued one pin request,
\* for the address it adopted and the full dynamic size of the value, holds
\* the value unchanged, and its region is pinned.
C18_FromAdoptsInPlace ==
    \A c \in Boxes :
        (pc[c] = "live" /\ meta[c] # SizeOfT) =>
            /\ Len(pinLog[c]) = 1
            /\ pinLog[c][1].addr = inner[c]
            /\ pinLog[c][1].len = Len(mem[inner[c]])
            /\ mem[inner[c]] = val[c]
            /\ Pinned(c)

\* C19: under a page-granular pinner without lock counts, a live box whose
\* pin request succeeded has its page locked, whatever other boxes do.
C19_PageSharingSafe ==
    \A c \in Boxes :
        (pc[c] = "live" /\ Len(pinLog[c]) = 1 /\ pinLog[c][1].ok) =>
            PageOf(inner[c]) \in pageLock

====
